---------------------------- MODULE Spec2Model ----------------------------
(***************************************************************************)
(* UEFI Common Platform Error Record (CPER) support,                       *)
(* drivers/firmware/efi/cper.c: the record-id generator, the validation    *)
(* of a generic error status block and its rendering.                      *)
(*                                                                         *)
(* Machine integers.  TLC's integers are 32-bit signed, so a C unsigned    *)
(* value is kept as a record [hi, lo] standing for hi * 2^16 + lo with     *)
(* 0 <= lo < 2^16.  A u32 has hi < 2^16; the wider values of the code      *)
(* (size_t sums on a 64-bit build, the 64-bit record id) have a larger hi. *)
(***************************************************************************)
EXTENDS Integers, Sequences, FiniteSets, TLC

VARIABLES
    \* ---- cper_next_record_id ----
    seq,        \* static atomic64_t seq
    now,        \* the wall clock get_seconds() reads
    pc,         \* each caller's position inside cper_next_record_id
    secs_read,  \* each caller's value of get_seconds(), between reading it and storing it
    pred,       \* each caller's number of completed calls when its call started
    ncalls,     \* each caller's number of calls started
    hist,       \* the completed calls, in order of return: [caller, id, pred]
    \* ---- cper_estatus_check_header / _check / _print ----
    size_t_bits,\* the build: width of size_t (32 or 64)
    estatus,    \* the blob: the status block header and the descriptor chain after it
    op,         \* the function running: "none", "check" or "print"
    c_data_len, \* cper_estatus_check: unsigned int data_len
    c_gdata,    \* cper_estatus_check: gdata, as [idx, off]
    pfx,        \* cper_estatus_print: length of the string pfx
    p_data_len, \* cper_estatus_print: unsigned int data_len
    p_gdata,    \* cper_estatus_print: gdata, as [idx, off]
    sec_no,     \* cper_estatus_print: int sec_no
    hdr_rc,     \* result of the last call of cper_estatus_check_header, "none" before it
    check_rc,   \* result of cper_estatus_check, "none" before it returned
    reads,      \* the descriptor headers cper_estatus_check read: [off, len, left]
    out,        \* the lines cper_estatus_print printed
    printed,    \* "none", "done" once cper_estatus_print returned
    \* ---- cper_print_bits and cper_estatus_print_section, called on their own ----
    pr_debug_on,\* the build and the running system: whether pr_debug() prints
    bits_call,  \* the arguments of cper_print_bits: [pfx, bits, strs, strs_size]
    bits_out,   \* [done, lines]: the lines cper_print_bits printed
    mem_call,   \* the arguments of cper_estatus_print_section: [pfx, gdata]
    mem_out     \* [done, lines]: the lines cper_estatus_print_section printed

recvars == <<seq, now, pc, secs_read, pred, ncalls, hist>>
estvars == <<size_t_bits, estatus, op, c_data_len, c_gdata, pfx, p_data_len, p_gdata,
             sec_no, hdr_rc, check_rc, reads, out, printed>>
callvars == <<pr_debug_on, bits_call, bits_out, mem_call, mem_out>>
vars == <<seq, now, pc, secs_read, pred, ncalls, hist,
          size_t_bits, estatus, op, c_data_len, c_gdata, pfx, p_data_len, p_gdata,
          sec_no, hdr_rc, check_rc, reads, out, printed, pr_debug_on,
          bits_call, bits_out, mem_call, mem_out>>

(***************************************************************************)
(* Unsigned arithmetic on [hi, lo].                                        *)
(***************************************************************************)
Limb == 65536

B(n) == [hi |-> n \div Limb, lo |-> n % Limb]

BAdd(a, b) ==
    LET l == a.lo + b.lo
    IN  [hi |-> a.hi + b.hi + (l \div Limb), lo |-> l % Limb]

\* a - b for a >= b
BSub(a, b) ==
    LET l == a.lo - b.lo
    IN  IF l >= 0 THEN [hi |-> a.hi - b.hi, lo |-> l]
                  ELSE [hi |-> a.hi - b.hi - 1, lo |-> l + Limb]

BLt(a, b) == a.hi < b.hi \/ (a.hi = b.hi /\ a.lo < b.lo)
BLe(a, b) == ~BLt(b, a)
BZero(a) == a.hi = 0 /\ a.lo = 0

\* conversion to a 32-bit unsigned: the value modulo 2^32
U32(a) == [hi |-> a.hi % Limb, lo |-> a.lo]
\* conversion to __u16: the value modulo 2^16
U16(a) == a.lo
\* 2^32
Two32 == [hi |-> Limb, lo |-> 0]
\* a - b in unsigned 32-bit arithmetic, for u32 a and b
U32Sub(a, b) == U32(BSub(BAdd(a, Two32), b))

(***************************************************************************)
(* cper_next_record_id                                                     *)
(***************************************************************************)
NumCallers == 3
MaxCalls == 2
StartTime == 1
MaxTime == 2

Callers == 1..NumCallers

\* ((u64)get_seconds()) << 32
SeedOf(s) == [hi |-> s * Limb, lo |-> 0]

\* no function of the status block is running or has run
EstatusIdle ==
    /\ op = "none"
    /\ c_data_len = B(0)
    /\ c_gdata = [idx |-> 1, off |-> B(0)]
    /\ pfx = 0
    /\ p_data_len = B(0)
    /\ p_gdata = [idx |-> 1, off |-> B(0)]
    /\ sec_no = 0
    /\ hdr_rc = "none"
    /\ check_rc = "none"
    /\ reads = <<>>
    /\ out = <<>>
    /\ printed = "none"

\* cper_print_bits is not called on its own
BitsIdle ==
    /\ bits_call = [pfx |-> 0, bits |-> {}, strs |-> <<>>, strs_size |-> 0]
    /\ bits_out = [done |-> FALSE, lines |-> <<>>]

\* cper_estatus_print_section is not called on its own
MemIdle ==
    /\ mem_call = [pfx |-> 0, gdata |-> [section_type |-> "none"]]
    /\ mem_out = [done |-> FALSE, lines |-> <<>>]

\* the record-id generator alone: no blob in hand
InitEstatusIdle ==
    /\ size_t_bits = 64
    /\ estatus = [error_severity |-> B(0), data_length |-> B(0),
                  raw_data_length |-> B(0), raw_data_offset |-> B(0),
                  secs |-> <<>>]
    /\ EstatusIdle

InitRecordIdle ==
    /\ seq = B(0)
    /\ now = StartTime
    /\ pc = [t \in Callers |-> "idle"]
    /\ secs_read = [t \in Callers |-> 0]
    /\ pred = [t \in Callers |-> 0]
    /\ ncalls = [t \in Callers |-> 0]
    /\ hist = <<>>

Init == InitRecordIdle /\ InitEstatusIdle /\ pr_debug_on = FALSE /\ BitsIdle /\ MemIdle

\* the wall clock advances
Tick ==
    /\ now < MaxTime
    /\ now' = now + 1
    /\ UNCHANGED <<seq, pc, secs_read, pred, ncalls, hist>>
    /\ UNCHANGED estvars
    /\ UNCHANGED callvars

\* a caller enters cper_next_record_id
Call(t) ==
    /\ pc[t] = "idle"
    /\ ncalls[t] < MaxCalls
    /\ pc' = [pc EXCEPT ![t] = "test"]
    /\ ncalls' = [ncalls EXCEPT ![t] = @ + 1]
    /\ pred' = [pred EXCEPT ![t] = Len(hist)]
    /\ UNCHANGED <<seq, now, secs_read, hist>>
    /\ UNCHANGED estvars
    /\ UNCHANGED callvars

\* if (!atomic64_read(&seq))
ReadSeq(t) ==
    /\ pc[t] = "test"
    /\ pc' = [pc EXCEPT ![t] = IF BZero(seq) THEN "time" ELSE "inc"]
    /\ UNCHANGED <<seq, now, secs_read, pred, ncalls, hist>>
    /\ UNCHANGED estvars
    /\ UNCHANGED callvars

\* get_seconds(), the argument of atomic64_set
GetSeconds(t) ==
    /\ pc[t] = "time"
    /\ secs_read' = [secs_read EXCEPT ![t] = now]
    /\ pc' = [pc EXCEPT ![t] = "set"]
    /\ UNCHANGED <<seq, now, pred, ncalls, hist>>
    /\ UNCHANGED estvars
    /\ UNCHANGED callvars

\* atomic64_set(&seq, ((u64)get_seconds()) << 32)
SetSeed(t) ==
    /\ pc[t] = "set"
    /\ seq' = SeedOf(secs_read[t])
    /\ secs_read' = [secs_read EXCEPT ![t] = 0]
    /\ pc' = [pc EXCEPT ![t] = "inc"]
    /\ UNCHANGED <<now, pred, ncalls, hist>>
    /\ UNCHANGED estvars
    /\ UNCHANGED callvars

\* return atomic64_inc_return(&seq)
IncReturn(t) ==
    /\ pc[t] = "inc"
    /\ seq' = BAdd(seq, B(1))
    /\ hist' = Append(hist, [caller |-> t, id |-> seq', pred |-> pred[t]])
    /\ pc' = [pc EXCEPT ![t] = "idle"]
    /\ UNCHANGED <<now, secs_read, pred, ncalls>>
    /\ UNCHANGED estvars
    /\ UNCHANGED callvars

cper_next_record_id(t) ==
    \/ Call(t)
    \/ ReadSeq(t)
    \/ GetSeconds(t)
    \/ SetSeed(t)
    \/ IncReturn(t)

Next ==
    \/ Tick
    \/ \E t \in Callers : cper_next_record_id(t)

Spec == Init /\ [][Next]_vars

\* C1: no two calls of cper_next_record_id ever return the same value,
\* whatever the interleaving of the callers' steps.
C1_UniqueIds ==
    \A i, j \in 1..Len(hist) : i # j => hist[i].id # hist[j].id

\* C2: when call A returned before call B started, id(A) < id(B).
C2_RealTimeOrder ==
    \A j \in 1..Len(hist) : \A i \in 1..hist[j].pred :
        BLt(hist[i].id, hist[j].id)

(***************************************************************************)
(* The generic error status block.                                         *)
(*                                                                         *)
(* estatus.secs is the chain of section descriptors that lies in memory    *)
(* after the status header: descriptor i+1 starts where the declared       *)
(* payload of descriptor i ends.  How many of them lie inside data_length  *)
(* is what the walks decide.                                               *)
(***************************************************************************)
\* sizeof(struct acpi_generic_status), sizeof(struct acpi_generic_data)
SizeofStatus == 20
SizeofGdata == 72
\* sizeof(struct cper_sec_proc_generic), cper_sec_mem_err, cper_sec_pcie
SizeofProc == 192
SizeofMem == 80
SizeofPcie == 208
\* enum: CPER_SEV_RECOVERABLE, CPER_SEV_FATAL, CPER_SEV_CORRECTED, CPER_SEV_INFORMATIONAL
CPER_SEV_FATAL == 1
CPER_SEV_CORRECTED == 2

\* size_t arithmetic: modulo 2^32 on a 32-bit build; on a 64-bit build the
\* sums of the code stay below 2^64
SizeAdd(a, b) == IF size_t_bits = 32 THEN U32(BAdd(a, b)) ELSE BAdd(a, b)

\* a C array read: an index outside the array reads whatever lies beyond it
ArrayAt(arr, i) == IF i >= 0 /\ i < Len(arr) THEN arr[i + 1] ELSE "<out of bounds>"

\* the header check without its "data_length &&": an empty section list is malformed
DataLengthTooShortOrZero(e) == BLt(e.data_length, B(SizeofGdata))

\* lines 391-393: data_length && data_length < sizeof(struct acpi_generic_data)
DataLengthTooShort(e) ==
    ~BZero(e.data_length) /\ BLt(e.data_length, B(SizeofGdata))

\* lines 394-396: raw_data_length && raw_data_offset < sizeof(*estatus) + data_length
RawDataOverlaps(e) ==
    /\ ~BZero(e.raw_data_length)
    /\ BLt(e.raw_data_offset, SizeAdd(B(SizeofStatus), e.data_length))

cper_estatus_check_header(e) ==
    IF DataLengthTooShort(e) THEN "-EINVAL"
    ELSE IF RawDataOverlaps(e) THEN "-EINVAL"
    ELSE "0"

\* the loop condition with > for >=
WalkGoesOnStrict(dl) == BLt(B(SizeofGdata), dl)

\* while (data_len >= sizeof(*gdata))
WalkGoesOn(dl) == BLe(B(SizeofGdata), dl)

\* the bounds test written as gedata_len + sizeof(*gdata) > data_len in 32 bits
SectionTooLongWrapping(gedata_len, dl) ==
    BLt(dl, U32(BAdd(gedata_len, B(SizeofGdata))))

\* line 415: gedata_len > data_len - sizeof(*gdata), inside the loop
SectionTooLong(gedata_len, dl) == BLt(U32Sub(dl, B(SizeofGdata)), gedata_len)

\* lines 382, 417: data_len -= gedata_len + sizeof(*gdata)
DataLenAfter(dl, gedata_len) ==
    U32Sub(dl, U32(SizeAdd(gedata_len, B(SizeofGdata))))

\* lines 383, 418: gdata = (void *)(gdata + 1) + gedata_len
GdataAfter(g, gedata_len) ==
    [idx |-> g.idx + 1,
     off |-> SizeAdd(SizeAdd(g.off, B(SizeofGdata)), gedata_len)]

\* the walk without its final "if (data_len) return -EINVAL"
WalkResultIgnoresRest(dl) == "0"

\* lines 420-423
WalkResult(dl) == IF ~BZero(dl) THEN "-EINVAL" ELSE "0"

\* int cper_estatus_check_header(estatus), called on its own
CheckHeaderCall ==
    /\ op = "none"
    /\ hdr_rc = "none"
    /\ hdr_rc' = cper_estatus_check_header(estatus)
    /\ UNCHANGED <<size_t_bits, estatus, op, c_data_len, c_gdata, pfx, p_data_len,
                   p_gdata, sec_no, check_rc, reads, out, printed>>
    /\ UNCHANGED recvars
    /\ UNCHANGED callvars

\* cper_estatus_check, lines 408-412
CheckStart ==
    /\ op = "none"
    /\ check_rc = "none"
    /\ LET rc == cper_estatus_check_header(estatus)
       IN  /\ hdr_rc' = rc
           /\ IF rc # "0"
              THEN /\ check_rc' = rc
                   /\ UNCHANGED <<op, c_data_len, c_gdata>>
              ELSE /\ op' = "check"
                   /\ c_data_len' = estatus.data_length
                   /\ c_gdata' = [idx |-> 1, off |-> B(0)]
                   /\ UNCHANGED check_rc
    /\ UNCHANGED <<size_t_bits, estatus, pfx, p_data_len, p_gdata, sec_no,
                   reads, out, printed>>
    /\ UNCHANGED recvars
    /\ UNCHANGED callvars

\* cper_estatus_check, one turn of the loop of lines 413-419, or lines 420-423.
\* The chain holds finitely many descriptors: a walk that would read one more
\* takes no further step.
CheckStep ==
    /\ op = "check"
    /\ IF WalkGoesOn(c_data_len)
       THEN /\ c_gdata.idx <= Len(estatus.secs)
            /\ LET gedata_len == estatus.secs[c_gdata.idx].error_data_length
                   long == SectionTooLong(gedata_len, c_data_len)
               IN  /\ reads' = Append(reads, [off |-> c_gdata.off, left |-> c_data_len,
                                              len |-> gedata_len, skipped |-> ~long])
                   /\ IF long
                      THEN /\ check_rc' = "-EINVAL"
                           /\ op' = "none"
                           /\ UNCHANGED <<c_data_len, c_gdata>>
                      ELSE /\ c_data_len' = DataLenAfter(c_data_len, gedata_len)
                           /\ c_gdata' = GdataAfter(c_gdata, gedata_len)
                           /\ UNCHANGED <<check_rc, op>>
       ELSE /\ check_rc' = WalkResult(c_data_len)
            /\ op' = "none"
            /\ UNCHANGED <<c_data_len, c_gdata, reads>>
    /\ UNCHANGED <<size_t_bits, estatus, pfx, p_data_len, p_gdata, sec_no, hdr_rc,
                   out, printed>>
    /\ UNCHANGED recvars
    /\ UNCHANGED callvars

(***************************************************************************)
(* Rendering.  A printed line is a record: idx is the descriptor of the    *)
(* chain it renders (0: the status block), sec the section number printed  *)
(* with it, via the call that printed it, pfx the length of its prefix,    *)
(* name the field, val the decoded string ("" where the line carries only  *)
(* numbers), names and len the content of a cper_print_bits line.          *)
(***************************************************************************)
Line(idx, sec, via, p, kind, name, val) ==
    [idx |-> idx, sec |-> sec, via |-> via, pfx |-> p, kind |-> kind,
     name |-> name, val |-> val, names |-> <<>>, len |-> 0]

cper_severity_strs == <<"recoverable", "fatal", "corrected", "info">>

\* cper_severity_str(unsigned int severity)
cper_severity_str(severity) ==
    IF severity < Len(cper_severity_strs)
    THEN ArrayAt(cper_severity_strs, severity)
    ELSE "unknown"

cper_proc_type_strs == <<"IA32/X64", "IA64">>
cper_proc_isa_strs == <<"IA32", "IA64", "X64">>
cper_proc_error_type_strs ==
    <<"cache error", "TLB error", "bus error", "micro-architectural error">>
cper_proc_op_strs ==
    <<"unknown or generic", "data read", "data write", "instruction execution">>
cper_proc_flag_strs == <<"restartable", "precise IP", "overflow", "corrected">>

\* strlen of the names cper_print_bits is given
StrLen(str) ==
    CASE str = "cache error" -> 11
      [] str = "TLB error" -> 9
      [] str = "bus error" -> 9
      [] str = "micro-architectural error" -> 25
      [] str = "restartable" -> 11
      [] str = "precise IP" -> 10
      [] str = "overflow" -> 8
      [] str = "corrected" -> 9

\* sizeof(buf) in cper_print_bits, and the line width it wraps at
BitsBufSize == 84
BitsLineMaxWide == BitsBufSize
BitsLineMax == 80

\* printk("%s\n", buf): buf holds at most sizeof(buf) - 1 characters of the
\* len that snprintf returned
BitsLine(idx, sec, p, names, len) ==
    [idx |-> idx, sec |-> sec, via |-> "printk", pfx |-> p, kind |-> "bits",
     name |-> "", val |-> "", names |-> names,
     len |-> IF len < BitsBufSize THEN len ELSE BitsBufSize - 1]

\* the loop of cper_print_bits from position i on; bits is the set of the
\* positions set in the mask, names and len are buf and len
RECURSIVE PrintBitsFrom(_, _, _, _, _, _, _, _, _, _)
PrintBitsFrom(i, idx, sec, p, bits, strs, strs_size, lines, names, len) ==
    IF i >= strs_size
    THEN IF len # 0 THEN Append(lines, BitsLine(idx, sec, p, names, len)) ELSE lines
    ELSE IF i \notin bits
    THEN PrintBitsFrom(i + 1, idx, sec, p, bits, strs, strs_size, lines, names, len)
    ELSE LET str == ArrayAt(strs, i) IN
         IF str = "NULL"
         THEN PrintBitsFrom(i + 1, idx, sec, p, bits, strs, strs_size, lines, names, len)
         ELSE LET flush == len # 0 /\ len + StrLen(str) + 2 > BitsLineMax
                  lines1 == IF flush
                            THEN Append(lines, BitsLine(idx, sec, p, names, len))
                            ELSE lines
                  len1 == IF flush THEN 0 ELSE len
              IN  IF len1 = 0
                  THEN PrintBitsFrom(i + 1, idx, sec, p, bits, strs, strs_size,
                                     lines1, <<str>>, p + StrLen(str))
                  ELSE PrintBitsFrom(i + 1, idx, sec, p, bits, strs, strs_size,
                                     lines1, Append(names, str), len1 + 2 + StrLen(str))

cper_print_bits(idx, sec, p, bits, strs, strs_size) ==
    PrintBitsFrom(0, idx, sec, p, bits, strs, strs_size, <<>>, <<>>, 0)

\* the line printed whether or not the bit is set
GatedAlways(vbits, bit, line) == <<line>>

\* if (validation_bits & bit) printk(one line)
Gated(vbits, bit, line) == IF bit \in vbits THEN <<line>> ELSE <<>>

\* an enum printed through its string table, "unknown" beyond the table
EnumStr(strs, v) == IF v < Len(strs) THEN ArrayAt(strs, v) ELSE "unknown"

cper_print_proc_generic(idx, sec, p, proc) ==
    LET v == proc.validation_bits
        F(name, val) == Line(idx, sec, "printk", p, "field", name, val)
    IN  Gated(v, "TYPE", F("processor_type", EnumStr(cper_proc_type_strs, proc.proc_type)))
     \o Gated(v, "ISA", F("processor_isa", EnumStr(cper_proc_isa_strs, proc.proc_isa)))
     \o (IF "ERROR_TYPE" \in v
         THEN <<F("error_type", "")>>
              \o cper_print_bits(idx, sec, p, proc.proc_error_type,
                                 cper_proc_error_type_strs, Len(cper_proc_error_type_strs))
         ELSE <<>>)
     \o Gated(v, "OPERATION", F("operation", EnumStr(cper_proc_op_strs, proc.operation)))
     \o (IF "FLAGS" \in v
         THEN <<F("flags", "")>>
              \o cper_print_bits(idx, sec, p, proc.flags,
                                 cper_proc_flag_strs, Len(cper_proc_flag_strs))
         ELSE <<>>)
     \o Gated(v, "LEVEL", F("level", ""))
     \o Gated(v, "VERSION", F("version_info", ""))
     \o Gated(v, "ID", F("processor_id", ""))
     \o Gated(v, "TARGET_ADDRESS", F("target_address", ""))
     \o Gated(v, "REQUESTOR_ID", F("requestor_id", ""))
     \o Gated(v, "RESPONDER_ID", F("responder_id", ""))
     \o Gated(v, "IP", F("IP", ""))

cper_mem_err_type_strs ==
    <<"unknown", "no error", "single-bit ECC", "multi-bit ECC",
      "single-symbol chipkill ECC", "multi-symbol chipkill ECC", "master abort",
      "target abort", "parity error", "watchdog timeout", "invalid address",
      "mirror Broken", "memory sparing", "scrub corrected error",
      "scrub uncorrected error", "physical memory map-out event">>

\* mem.dimm_found: whether dmi_memdev_name() finds the bank and the device
\* pr_debug() prints on a build with DEBUG defined, or with dynamic debug and
\* the call site enabled, and is a no-op otherwise
cper_print_mem(idx, sec, p, mem) ==
    LET v == mem.validation_bits
        F(name, val) == Line(idx, sec, "printk", p, "field", name, val)
        D(name) == Line(idx, sec, "pr_debug", 0, "field", name, "")
        calls ==
            Gated(v, "ERROR_STATUS", F("error_status", ""))
         \o Gated(v, "PA", F("physical_address", ""))
         \o Gated(v, "PA_MASK", F("physical_address_mask", ""))
         \o Gated(v, "NODE", D("node"))
         \o Gated(v, "CARD", D("card"))
         \o Gated(v, "MODULE", D("module"))
         \o Gated(v, "RANK_NUMBER", D("rank"))
         \o Gated(v, "BANK", D("bank"))
         \o Gated(v, "DEVICE", D("device"))
         \o Gated(v, "ROW", D("row"))
         \o Gated(v, "COLUMN", D("column"))
         \o Gated(v, "BIT_POSITION", D("bit_position"))
         \o Gated(v, "REQUESTOR_ID", D("requestor_id"))
         \o Gated(v, "RESPONDER_ID", D("responder_id"))
         \o Gated(v, "TARGET_ID", D("target_id"))
         \o Gated(v, "ERROR_TYPE",
                  F("error_type", EnumStr(cper_mem_err_type_strs, mem.error_type)))
         \o Gated(v, "MODULE_HANDLE",
                  IF mem.dimm_found THEN F("DIMM location", "")
                                    ELSE F("DIMM DMI handle", ""))
    IN  SelectSeq(calls, LAMBDA l : l.via = "printk" \/ pr_debug_on)

cper_pcie_port_type_strs ==
    <<"PCIe end point", "legacy PCI end point", "unknown", "unknown", "root port",
      "upstream switch port", "downstream switch port", "PCIe to PCI/PCI-X bridge",
      "PCI/PCI-X to PCIe bridge", "root complex integrated endpoint device",
      "root complex event collector">>

\* gdata->error_severity & CPER_SEV_FATAL, on the u32 of the descriptor
SeverityAndFatal(g) == (g.error_severity.lo % (2 * CPER_SEV_FATAL)) \div CPER_SEV_FATAL

cper_print_pcie(idx, sec, p, pcie, g) ==
    LET v == pcie.validation_bits
        F(name, val) == Line(idx, sec, "printk", p, "field", name, val)
        A(name) == Line(idx, sec, "printk", p, "aer", name, "")
    IN  Gated(v, "PORT_TYPE",
              F("port_type", EnumStr(cper_pcie_port_type_strs, pcie.port_type)))
     \o Gated(v, "VERSION", F("version", ""))
     \o Gated(v, "COMMAND_STATUS", F("command", ""))
     \o (IF "DEVICE_ID" \in v
         THEN <<F("device_id", ""), F("slot", ""), F("secondary_bus", ""),
                F("vendor_id", ""), F("class_code", "")>>
         ELSE <<>>)
     \o Gated(v, "SERIAL_NUMBER", F("serial number", ""))
     \o Gated(v, "BRIDGE_CONTROL_STATUS", F("bridge", ""))
     \o (IF "AER_INFO" \in v /\ SeverityAndFatal(g) # 0
         THEN <<A("aer_uncor_status"), A("aer_uncor_severity"), A("TLP Header")>>
         ELSE <<>>)

\* sizeof(newpfx), and snprintf(newpfx, sizeof(newpfx), "%s%s", pfx, INDENT_SP)
NewPfxSize == 64
NewPfx(p) == IF p + 1 < NewPfxSize THEN p + 1 ELSE NewPfxSize - 1

\* the decoders called without the length test
LongEnoughUnchecked(g, size) == TRUE

\* error_data_length >= sizeof(the decoder's struct)
LongEnough(g, size) == BLe(B(size), g.error_data_length)

TooSmall(idx, sec) ==
    <<Line(idx, sec, "pr_err", 0, "too_small", "error section length is too small", "")>>

cper_estatus_print_section(idx, p, g, sec) ==
    LET severity == U16(g.error_severity)
        np == NewPfx(p)
        T(val) == Line(idx, sec, "printk", np, "section_type", "section_type", val)
    IN  <<Line(idx, sec, "printk", p, "error", "Error", cper_severity_str(severity))>>
     \o Gated(g.validation_bits, "FRU_ID", Line(idx, sec, "printk", p, "fru", "fru_id", ""))
     \o Gated(g.validation_bits, "FRU_TEXT", Line(idx, sec, "printk", p, "fru", "fru_text", ""))
     \o (IF g.section_type = "CPER_SEC_PROC_GENERIC"
         THEN <<T("general processor error")>>
              \o (IF LongEnough(g, SizeofProc)
                  THEN cper_print_proc_generic(idx, sec, np, g.payload)
                  ELSE TooSmall(idx, sec))
         ELSE IF g.section_type = "CPER_SEC_PLATFORM_MEM"
         THEN <<T("memory error")>>
              \o (IF LongEnough(g, SizeofMem)
                  THEN cper_print_mem(idx, sec, np, g.payload)
                  ELSE TooSmall(idx, sec))
         ELSE IF g.section_type = "CPER_SEC_PCIE"
         THEN <<T("PCIe error")>>
              \o (IF LongEnough(g, SizeofPcie)
                  THEN cper_print_pcie(idx, sec, np, g.payload, g)
                  ELSE TooSmall(idx, sec))
         ELSE <<Line(idx, sec, "printk", np, "unknown_type", "section type", "unknown")>>)

\* the calls cper_estatus_print is made with: the length of pfx
PfxLens == {0, 62}

\* cper_estatus_print, lines 370-378
PrintStart ==
    /\ op = "none"
    /\ printed = "none"
    /\ \E p \in PfxLens :
        LET severity == U16(estatus.error_severity)
        IN  /\ pfx' = p
            /\ out' = (IF severity = CPER_SEV_CORRECTED
                       THEN <<Line(0, -1, "printk", p, "corrected",
                                   "It has been corrected by h/w", "")>>
                       ELSE <<>>)
                      \o <<Line(0, -1, "printk", p, "event_severity", "event severity",
                                cper_severity_str(severity))>>
    /\ p_data_len' = estatus.data_length
    /\ p_gdata' = [idx |-> 1, off |-> B(0)]
    /\ sec_no' = 0
    /\ op' = "print"
    /\ UNCHANGED <<size_t_bits, estatus, c_data_len, c_gdata, hdr_rc, check_rc,
                   reads, printed>>
    /\ UNCHANGED recvars
    /\ UNCHANGED callvars

\* cper_estatus_print, one turn of the loop of lines 379-385, or the return
PrintStep ==
    /\ op = "print"
    /\ IF WalkGoesOn(p_data_len)
       THEN /\ p_gdata.idx <= Len(estatus.secs)
            /\ LET g == estatus.secs[p_gdata.idx]
                   gedata_len == g.error_data_length
               IN  /\ out' = out \o cper_estatus_print_section(p_gdata.idx, NewPfx(pfx),
                                                               g, sec_no)
                   /\ p_data_len' = DataLenAfter(p_data_len, gedata_len)
                   /\ p_gdata' = GdataAfter(p_gdata, gedata_len)
                   /\ sec_no' = sec_no + 1
                   /\ UNCHANGED <<op, printed>>
       ELSE /\ printed' = "done"
            /\ op' = "none"
            /\ UNCHANGED <<out, p_data_len, p_gdata, sec_no>>
    /\ UNCHANGED <<size_t_bits, estatus, c_data_len, c_gdata, pfx, hdr_rc, check_rc,
                   reads>>
    /\ UNCHANGED recvars
    /\ UNCHANGED callvars

NextEstatus ==
    \/ CheckHeaderCall
    \/ CheckStart
    \/ CheckStep
    \/ PrintStart
    \/ PrintStep

(***************************************************************************)
(* Blobs.                                                                  *)
(***************************************************************************)
\* the largest u32, and the u32 that a descriptor header added to wraps to 0
U32Max == [hi |-> Limb - 1, lo |-> Limb - 1]
U32MinusGdata == BSub(Two32, B(SizeofGdata))

NoPayload == [validation_bits |-> {}]

Desc(type, sev, vbits, len, payload) ==
    [section_type |-> type, error_severity |-> sev, validation_bits |-> vbits,
     error_data_length |-> len, payload |-> payload]

\* the bytes the first n descriptors of the chain take with their payloads
RECURSIVE PrefixSum(_, _)
PrefixSum(secs, n) ==
    IF n = 0 THEN B(0)
    ELSE BAdd(PrefixSum(secs, n - 1),
              BAdd(B(SizeofGdata), secs[n].error_data_length))

\* ---- blobs with arbitrary lengths: what firmware, or corruption, may hand in
MaxSecs == 3

WalkDataLengths ==
    {B(0), B(1), B(71), B(72), B(73), B(80), B(144), B(152), B(216), B(224), U32Max}
WalkSectionLengths == {B(0), B(8), U32MinusGdata, U32Max}
WalkRawLengths == {B(0), B(1)}
WalkRawOffsets == {B(19), B(20), B(92), U32Max}
WalkSeverities == {B(0), B(2)}

WalkDesc(len) == Desc("other", B(0), {}, len, NoPayload)

\* every header over one chain, and every chain under a header whose raw
\* data lies clear of the sections or at the very start of the blob
InitWalk ==
    /\ InitRecordIdle
    /\ EstatusIdle
    /\ BitsIdle
    /\ MemIdle
    /\ pr_debug_on = FALSE
    /\ size_t_bits \in {32, 64}
    /\ \/ \E sev \in WalkSeverities, dl \in WalkDataLengths, rl \in WalkRawLengths,
             ro \in WalkRawOffsets :
             estatus = [error_severity |-> sev, data_length |-> dl,
                        raw_data_length |-> rl, raw_data_offset |-> ro,
                        secs |-> [i \in 1..MaxSecs |-> WalkDesc(B(0))]]
       \/ \E dl \in WalkDataLengths,
             raw \in {<<B(0), B(0)>>, <<B(1), B(19)>>, <<B(1), U32Max>>},
             lens \in [1..MaxSecs -> WalkSectionLengths] :
             estatus = [error_severity |-> B(0), data_length |-> dl,
                        raw_data_length |-> raw[1], raw_data_offset |-> raw[2],
                        secs |-> [i \in 1..MaxSecs |-> WalkDesc(lens[i])]]

SpecWalk == InitWalk /\ [][NextEstatus]_vars

\* ---- blobs whose sections tile data_length: what is handed to the renderer;
\* pr_debug() is called for memory sections only, so only blobs that may hold
\* one are taken with it printing and with it silent
RenderSecs == 2

Severities == {B(0), B(1), B(2), B(3), B(4), [hi |-> 1, lo |-> 1], U32Max}

ProcBits == {"TYPE", "ISA", "ERROR_TYPE", "OPERATION", "FLAGS", "LEVEL", "VERSION",
             "ID", "TARGET_ADDRESS", "REQUESTOR_ID", "RESPONDER_ID", "IP"}
MemBits == {"ERROR_STATUS", "PA", "PA_MASK", "NODE", "CARD", "MODULE", "RANK_NUMBER",
            "BANK", "DEVICE", "ROW", "COLUMN", "BIT_POSITION", "REQUESTOR_ID",
            "RESPONDER_ID", "TARGET_ID", "ERROR_TYPE", "MODULE_HANDLE"}
PcieBits == {"PORT_TYPE", "VERSION", "COMMAND_STATUS", "DEVICE_ID", "SERIAL_NUMBER",
             "BRIDGE_CONTROL_STATUS", "AER_INFO"}

ProcPayloads ==
    {[validation_bits |-> v, proc_type |-> 0, proc_isa |-> 3, proc_error_type |-> {0, 3},
      operation |-> 1, flags |-> {0, 3}] : v \in {{"LEVEL"}, ProcBits}}
MemPayloads ==
    {[validation_bits |-> v, error_type |-> 2, dimm_found |-> FALSE] : v \in {MemBits}}
PciePayloads ==
    {[validation_bits |-> v, port_type |-> 4] : v \in {{"AER_INFO"}, PcieBits}}

\* sections of unknown type of every severity, under every status severity
SeverityDescs ==
    {Desc("other", sev, {}, B(0), NoPayload) : sev \in Severities}
    \cup {Desc("other", B(0), {"FRU_ID", "FRU_TEXT"}, B(0), NoPayload)}
\* PCIe sections of every severity
PcieDescs ==
    {Desc("CPER_SEC_PCIE", sev, {}, B(SizeofPcie), pl) :
        sev \in Severities, pl \in PciePayloads}
\* sections of every type, with payloads one byte shorter than the decoder's
\* struct and exactly as long
SizedDescs ==
    {Desc("CPER_SEC_PROC_GENERIC", B(0), {}, len, pl) :
        len \in {B(SizeofProc - 1), B(SizeofProc)}, pl \in ProcPayloads}
    \cup {Desc("CPER_SEC_PLATFORM_MEM", B(0), {}, len, pl) :
        len \in {B(SizeofMem - 1), B(SizeofMem)}, pl \in MemPayloads}
    \cup {Desc("CPER_SEC_PCIE", B(1), {}, len, pl) :
        len \in {B(SizeofPcie - 1), B(SizeofPcie)}, pl \in PciePayloads}
    \cup {Desc("other", B(0), {}, len, NoPayload) : len \in {B(0), B(SizeofMem - 1)}}

TiledBlob(sev, secs) ==
    [error_severity |-> sev, data_length |-> PrefixSum(secs, Len(secs)),
     raw_data_length |-> B(0), raw_data_offset |-> B(0), secs |-> secs]

InitRender ==
    /\ InitRecordIdle
    /\ EstatusIdle
    /\ BitsIdle
    /\ MemIdle
    /\ size_t_bits \in {32, 64}
    /\ \E n \in 0..RenderSecs :
          \/ \E sev \in Severities, secs \in [1..n -> SeverityDescs] :
                estatus = TiledBlob(sev, secs) /\ pr_debug_on = FALSE
          \/ \E secs \in [1..n -> PcieDescs] :
                estatus = TiledBlob(B(0), secs) /\ pr_debug_on = FALSE
          \/ \E secs \in [1..n -> SizedDescs] :
                estatus = TiledBlob(B(0), secs) /\ pr_debug_on \in BOOLEAN

SpecRender == InitRender /\ [][NextEstatus]_vars

(***************************************************************************)
(* cper_print_bits called on its own: the function is exported, so the     *)
(* prefix, the mask and the table are the caller's.                        *)
(***************************************************************************)
\* the longest prefix, and the highest position set in the mask
MaxPfxLen == 64
MaxBit == 5

\* a table with an entry left NULL
SparseStrs == <<"restartable", "NULL", "overflow", "corrected">>

BitsTables == {cper_proc_error_type_strs, cper_proc_flag_strs, SparseStrs}

\* strs_size is at most ARRAY_SIZE(strs), as every caller passes it
InitBits ==
    /\ InitRecordIdle
    /\ InitEstatusIdle
    /\ MemIdle
    /\ pr_debug_on = FALSE
    /\ bits_out = [done |-> FALSE, lines |-> <<>>]
    /\ \E p \in 0..MaxPfxLen, bits \in SUBSET (0..MaxBit), strs \in BitsTables :
          \E strs_size \in 0..Len(strs) :
             bits_call = [pfx |-> p, bits |-> bits, strs |-> strs,
                          strs_size |-> strs_size]

CallPrintBits ==
    /\ ~bits_out.done
    /\ bits_out' = [done |-> TRUE,
                    lines |-> cper_print_bits(0, -1, bits_call.pfx, bits_call.bits,
                                              bits_call.strs, bits_call.strs_size)]
    /\ UNCHANGED <<pr_debug_on, bits_call, mem_call, mem_out>>
    /\ UNCHANGED recvars
    /\ UNCHANGED estvars

SpecBits == InitBits /\ [][CallPrintBits]_vars

(***************************************************************************)
(* cper_estatus_print_section called on a memory error section that is     *)
(* long enough.                                                            *)
(***************************************************************************)
\* u8 error_type
U8Max == 255

\* every combination of validation bits, and every error_type under the
\* combinations that print it
MemCalls ==
    {[validation_bits |-> v, error_type |-> 2, dimm_found |-> FALSE] :
        v \in SUBSET MemBits}
    \cup {[validation_bits |-> v, error_type |-> t, dimm_found |-> d] :
            v \in {{"ERROR_TYPE"}, {"PA", "ERROR_TYPE"},
                   {"ERROR_TYPE", "MODULE_HANDLE"}, MemBits},
            t \in 0..U8Max, d \in BOOLEAN}

InitMem ==
    /\ InitRecordIdle
    /\ InitEstatusIdle
    /\ BitsIdle
    /\ pr_debug_on \in BOOLEAN
    /\ mem_out = [done |-> FALSE, lines |-> <<>>]
    /\ \E mem \in MemCalls :
          mem_call = [pfx |-> 0,
                      gdata |-> Desc("CPER_SEC_PLATFORM_MEM", B(0), {},
                                     B(SizeofMem), mem)]

CallPrintSection ==
    /\ ~mem_out.done
    /\ mem_out' = [done |-> TRUE,
                   lines |-> cper_estatus_print_section(1, mem_call.pfx,
                                                        mem_call.gdata, 0)]
    /\ UNCHANGED <<pr_debug_on, bits_call, bits_out, mem_call>>
    /\ UNCHANGED recvars
    /\ UNCHANGED estvars

SpecMem == InitMem /\ [][CallPrintSection]_vars

(***************************************************************************)
(* Properties of the status block functions.                               *)
(***************************************************************************)
Secs == estatus.secs
DataLength == estatus.data_length

\* the first n descriptors lie, with their payloads, inside data_length
SectionsFit(n) == \A k \in 1..n : BLe(PrefixSum(Secs, k), DataLength)
\* the bytes of data_length after the first n descriptors
LeftAfter(n) == BSub(DataLength, PrefixSum(Secs, n))
\* after n well-formed sections a descriptor claims more than remains after its header
Overlong(n) ==
    /\ n < Len(Secs)
    /\ SectionsFit(n)
    /\ BLe(B(SizeofGdata), LeftAfter(n))
    /\ BLt(BSub(LeftAfter(n), B(SizeofGdata)), Secs[n + 1].error_data_length)
\* after n well-formed sections less than a descriptor header, and not nothing, is left
LeftOver(n) ==
    /\ SectionsFit(n)
    /\ ~BZero(LeftAfter(n))
    /\ BLt(LeftAfter(n), B(SizeofGdata))
\* the first n descriptors and their payloads take exactly data_length bytes
Tiled(n) == PrefixSum(Secs, n) = DataLength

\* the "Error %d, type: %s" lines, one per section report
ErrorLines == SelectSeq(out, LAMBDA l : l.kind = "error")
\* exactly n section reports, numbered from 0, in the order of the descriptors
ReportsInOrder(n) ==
    /\ Len(ErrorLines) = n
    /\ \A k \in 1..n : ErrorLines[k].idx = k /\ ErrorLines[k].sec = k - 1

\* C3: cper_estatus_check returns -EINVAL for every blob whose sections do not
\* tile data_length: after any number of well-formed sections, a descriptor
\* whose error_data_length exceeds what remains after its header, or a
\* nonzero remainder smaller than a descriptor header.
C3_UntiledRejected ==
    (check_rc # "none" /\ \E n \in 0..Len(Secs) : Overlong(n) \/ LeftOver(n))
        => check_rc = "-EINVAL"

\* C3's case: the header check passed, the walk read two well-formed sections
\* and rejected the third
C3_Witness ==
    /\ check_rc = "-EINVAL"
    /\ cper_estatus_check_header(estatus) = "0"
    /\ Overlong(2)
    /\ Len(reads) = 3

\* C4 as stated: whenever N >= 1 descriptors tile data_length,
\* cper_estatus_check succeeds.
C4_TiledAlwaysAccepted ==
    \A n \in 1..Len(Secs) :
        (Tiled(n) /\ check_rc # "none") => check_rc = "0"

\* the raw data, if any, starts at or after the end of the section list
RawDataClear ==
    \/ BZero(estatus.raw_data_length)
    \/ BLe(BAdd(B(SizeofStatus), DataLength), estatus.raw_data_offset)

\* C4, amended: whenever N descriptors tile data_length, cper_estatus_print
\* emits exactly N section reports numbered 0..N-1 in descriptor order and
\* ends with data_len zero; cper_estatus_check succeeds if moreover the raw
\* data does not overlap the section list.
C4_TiledAcceptedAndRendered ==
    \A n \in 0..Len(Secs) :
        Tiled(n) =>
            /\ (check_rc # "none" /\ RawDataClear) => check_rc = "0"
            /\ printed = "done" => ReportsInOrder(n) /\ BZero(p_data_len)

\* C4's case: three sections tile data_length, raw data follows them, the
\* blob was checked and rendered
C4_Witness ==
    /\ Tiled(3)
    /\ ~BZero(estatus.raw_data_length)
    /\ check_rc = "0"
    /\ printed = "done"
    /\ Len(ErrorLines) = 3

\* C5 as stated: with data_length = 0 cper_estatus_check succeeds whatever the
\* other header fields are.
C5_EmptyAlwaysAccepted ==
    (BZero(DataLength) /\ check_rc # "none") => check_rc = "0"

\* C5, amended: with data_length = 0 cper_estatus_print emits no section
\* report whatever the other header fields are, and cper_estatus_check
\* succeeds exactly when raw_data_length is 0 or raw_data_offset is at least
\* sizeof(struct acpi_generic_status).
C5_EmptyBlob ==
    BZero(DataLength) =>
        /\ check_rc # "none" =>
              (check_rc = "0" <=>
                  (BZero(estatus.raw_data_length)
                   \/ BLe(B(SizeofStatus), estatus.raw_data_offset)))
        /\ \A i \in 1..Len(out) : out[i].idx = 0
        /\ printed = "done" => sec_no = 0 /\ Len(out) >= 1

\* C5's case: an empty blob with raw data and a nonzero severity, checked and
\* rendered
C5_Witness ==
    /\ BZero(DataLength)
    /\ ~BZero(estatus.raw_data_length)
    /\ ~BZero(estatus.error_severity)
    /\ check_rc = "0"
    /\ printed = "done"

\* C6: cper_estatus_check_header succeeds if and only if (data_length = 0 or
\* data_length >= sizeof(struct acpi_generic_data)) and (raw_data_length = 0 or
\* raw_data_offset >= sizeof(struct acpi_generic_status) + data_length), the
\* sum being the mathematical one.
C6_HeaderIff ==
    hdr_rc # "none" =>
        (hdr_rc = "0" <=>
            /\ BZero(DataLength) \/ BLe(B(SizeofGdata), DataLength)
            /\ RawDataClear)

\* C7: every descriptor header cper_estatus_check reads lies inside the
\* data_length bytes after the status header, data_len is always the number
\* of those bytes not yet walked over (it never wraps), and a payload is
\* skipped only when header and payload fit into what remained.
C7_WalkInBounds ==
    /\ \A i \in 1..Len(reads) :
          /\ BLe(BAdd(reads[i].off, B(SizeofGdata)), DataLength)
          /\ BAdd(reads[i].off, reads[i].left) = DataLength
          /\ reads[i].skipped =>
                BLe(BAdd(B(SizeofGdata), reads[i].len), reads[i].left)
    /\ op = "check" => BAdd(c_gdata.off, c_data_len) = DataLength

\* C7's case: the walk skipped a section and then read a descriptor whose
\* error_data_length, added to the header size, wraps 32 bits
C7_Witness ==
    /\ Len(reads) >= 2
    /\ reads[1].skipped
    /\ reads[Len(reads)].len \in {U32MinusGdata, U32Max}
    /\ check_rc = "-EINVAL"

\* C8: a severity outside {0,1,2,3}, in the status header or in a section
\* descriptor, is printed as "unknown", and the severity table is never read
\* beyond its four entries.
C8_UnknownSeverity ==
    \A i \in 1..Len(out) :
        /\ out[i].val # "<out of bounds>"
        /\ (out[i].kind = "event_severity" /\ ~BLt(estatus.error_severity, B(4)))
              => out[i].val = "unknown"
        /\ (out[i].kind = "error" /\ ~BLt(Secs[out[i].idx].error_severity, B(4)))
              => out[i].val = "unknown"

\* C9: the AER registers of a PCIe section are printed only when the section
\* descriptor's error_severity equals CPER_SEV_FATAL.
C9_AerOnlyWhenFatal ==
    \A i \in 1..Len(out) :
        out[i].kind = "aer" => Secs[out[i].idx].error_severity = B(CPER_SEV_FATAL)

\* sizeof the struct the decoder of a section type reads, 0 for an unknown type
DecoderSize(type) ==
    CASE type = "CPER_SEC_PROC_GENERIC" -> SizeofProc
      [] type = "CPER_SEC_PLATFORM_MEM" -> SizeofMem
      [] type = "CPER_SEC_PCIE" -> SizeofPcie
      [] OTHER -> 0
\* the lines of kind kinds printed for descriptor k
LinesOf(k, kinds) == SelectSeq(out, LAMBDA l : l.idx = k /\ l.kind \in kinds)
KnownButShort(g) ==
    /\ g.section_type # "other"
    /\ BLt(g.error_data_length, B(DecoderSize(g.section_type)))

\* C10: in a validated blob a section of known type whose error_data_length
\* is smaller than its decoder's struct gets none of its field lines and one
\* "too small" line; a section of unknown type is reported as unknown and
\* never as too small; and every section, whatever came before it, is
\* reported with its own number, in descriptor order.
C10_TooSmallSkipsOneSection ==
    check_rc = "0" =>
        /\ \A k \in 1..(p_gdata.idx - 1) :
              /\ Len(LinesOf(k, {"error"})) = 1
              /\ LinesOf(k, {"error"})[1].sec = k - 1
              /\ KnownButShort(Secs[k]) =>
                    /\ LinesOf(k, {"field", "bits", "aer", "unknown_type"}) = <<>>
                    /\ Len(LinesOf(k, {"too_small"})) = 1
              /\ Secs[k].section_type = "other" =>
                    /\ Len(LinesOf(k, {"unknown_type"})) = 1
                    /\ LinesOf(k, {"too_small", "field", "bits", "aer"}) = <<>>
        /\ \A i, j \in 1..Len(out) : i < j => out[i].idx <= out[j].idx
        /\ printed = "done" => p_gdata.idx - 1 = Len(Secs)

\* C10's case: a validated blob whose first section is a known type with a
\* payload too small, followed by a short section of unknown type, rendered
C10_Witness ==
    /\ check_rc = "0"
    /\ printed = "done"
    /\ Len(Secs) = 2
    /\ KnownButShort(Secs[1])
    /\ Secs[2].section_type = "other"
    /\ Secs[2].error_data_length = B(SizeofMem - 1)
    /\ Len(LinesOf(1, {"too_small"})) = 1
    /\ Len(LinesOf(2, {"unknown_type"})) = 1

(***************************************************************************)
(* Properties of cper_print_bits.                                          *)
(***************************************************************************)
\* the names the mask selects from the first strs_size entries, in ascending
\* position
ChosenNames ==
    LET c == bits_call
        pos == SelectSeq([i \in 1..c.strs_size |-> i - 1],
                         LAMBDA i : i \in c.bits /\ c.strs[i + 1] # "NULL")
    IN  [k \in 1..Len(pos) |-> c.strs[pos[k] + 1]]

RECURSIVE NamesOf(_)
NamesOf(lines) ==
    IF lines = <<>> THEN <<>> ELSE Head(lines).names \o NamesOf(Tail(lines))

RECURSIVE SumLen(_)
SumLen(names) == IF names = <<>> THEN 0 ELSE StrLen(Head(names)) + SumLen(Tail(names))

\* the columns of prefix, names and ", " between the names
FullLen(line) == line.pfx + SumLen(line.names) + 2 * (Len(line.names) - 1)

\* what the claim says of every call except the width of the lines
BitsLinesAsSelected ==
    LET L == bits_out.lines
    IN  /\ NamesOf(L) = ChosenNames
        /\ \A k \in 1..Len(L) :
              /\ L[k].names # <<>>
              /\ L[k].pfx = bits_call.pfx
              /\ L[k].via = "printk"
        /\ \A k \in 1..(Len(L) - 1) :
              FullLen(L[k]) + 2 + StrLen(L[k + 1].names[1]) > 80
        /\ (/\ bits_call.strs = cper_proc_flag_strs
            /\ bits_call.strs_size = 4
            /\ bits_call.bits \cap (0..3) = {0, 3}
            /\ bits_call.pfx + 22 <= 80)
           => (Len(L) = 1 /\ L[1].names = <<"restartable", "corrected">>
               /\ L[1].len = bits_call.pfx + 22)

Mem == mem_call.gdata.payload

\* the field lines of the section's detail
MemLines == SelectSeq(mem_out.lines, LAMBDA l : l.kind = "field")
MemLinesNamed(names) == SelectSeq(MemLines, LAMBDA l : l.name \in names)

\* the validation bits whose field is printed with printk, and with pr_debug
PrintkBits == {"ERROR_STATUS", "PA", "PA_MASK", "ERROR_TYPE", "MODULE_HANDLE"}
DebugBits == MemBits \ PrintkBits

\* the names a field's line may bear
MemFieldNames(bit) ==
    CASE bit = "ERROR_STATUS" -> {"error_status"}
      [] bit = "PA" -> {"physical_address"}
      [] bit = "PA_MASK" -> {"physical_address_mask"}
      [] bit = "NODE" -> {"node"}
      [] bit = "CARD" -> {"card"}
      [] bit = "MODULE" -> {"module"}
      [] bit = "RANK_NUMBER" -> {"rank"}
      [] bit = "BANK" -> {"bank"}
      [] bit = "DEVICE" -> {"device"}
      [] bit = "ROW" -> {"row"}
      [] bit = "COLUMN" -> {"column"}
      [] bit = "BIT_POSITION" -> {"bit_position"}
      [] bit = "REQUESTOR_ID" -> {"requestor_id"}
      [] bit = "RESPONDER_ID" -> {"responder_id"}
      [] bit = "TARGET_ID" -> {"target_id"}
      [] bit = "ERROR_TYPE" -> {"error_type"}
      [] bit = "MODULE_HANDLE" -> {"DIMM location", "DIMM DMI handle"}

\* the field of bit has its one line if the bit is in shown, and none otherwise
OneLineIff(bit, shown) ==
    Len(MemLinesNamed(MemFieldNames(bit))) = (IF bit \in shown THEN 1 ELSE 0)

\* what the claim says of the error_type line and of its example
MemErrorTypeAndExample ==
    /\ \A k \in 1..Len(MemLines) :
          MemLines[k].name = "error_type" =>
              /\ Mem.error_type = 2 => MemLines[k].val = "single-bit ECC"
              /\ Mem.error_type >= 16 => MemLines[k].val = "unknown"
              /\ Mem.error_type < 16 =>
                    MemLines[k].val = cper_mem_err_type_strs[Mem.error_type + 1]
    /\ (Mem.validation_bits = {"PA", "ERROR_TYPE"} /\ Mem.error_type = 2) =>
          /\ Len(MemLines) = 2
          /\ MemLines[1].name = "physical_address"
          /\ MemLines[2].name = "error_type"
          /\ MemLines[2].val = "single-bit ECC"

\* C12, as stated: for a memory error section of sufficient length every
\* field has its line if and only if its validation bit is set, whatever the
\* combination of bits; physical-address and error-type bits alone with
\* error_type 2 give the physical_address line and an error_type line
\* reading "single-bit ECC" and nothing else; an error_type of 16 or more
\* reads "unknown".
C12_LineIffBit ==
    mem_out.done =>
        /\ \A bit \in MemBits : OneLineIff(bit, Mem.validation_bits)
        /\ Len(MemLines) = Cardinality(Mem.validation_bits)
        /\ MemErrorTypeAndExample

\* C12, amended: error_status, physical_address, physical_address_mask,
\* error_type and the DIMM line are printed if and only if their bit is set;
\* the other twelve fields go through pr_debug(), without the prefix, and
\* have their line if and only if their bit is set and pr_debug() prints.
C12_LineIffBitAndDebug ==
    mem_out.done =>
        LET shown == IF pr_debug_on THEN Mem.validation_bits
                                    ELSE Mem.validation_bits \cap PrintkBits
        IN  /\ \A bit \in MemBits : OneLineIff(bit, shown)
            /\ Len(MemLines) = Cardinality(shown)
            /\ \A k \in 1..Len(MemLines) :
                  \/ /\ MemLines[k].via = "printk"
                     /\ MemLines[k].pfx = mem_call.pfx + 1
                     /\ \E bit \in PrintkBits : MemLines[k].name \in MemFieldNames(bit)
                  \/ /\ MemLines[k].via = "pr_debug"
                     /\ \E bit \in DebugBits : MemLines[k].name \in MemFieldNames(bit)
            /\ MemErrorTypeAndExample

\* a section with the node bit set printed while pr_debug() is silent, its
\* error_type beyond the table
C12_Witness ==
    /\ mem_out.done
    /\ ~pr_debug_on
    /\ {"PA", "NODE", "ERROR_TYPE"} \subseteq Mem.validation_bits
    /\ Mem.error_type >= 16
    /\ MemLinesNamed({"node"}) = <<>>
    /\ Len(MemLinesNamed({"physical_address"})) = 1
    /\ \E k \in 1..Len(MemLines) :
          MemLines[k].name = "error_type" /\ MemLines[k].val = "unknown"

=============================================================================
